---------------------------- MODULE Spec2Model ----------------------------
(***************************************************************************)
(* CoverArtCache (src/library/coverartcache.cpp): the coordinator that     *)
(* serves cover art pixmaps from QPixmapCache, dispatches search / load    *)
(* jobs through QtConcurrent, applies their results in imageFound /        *)
(* imageLoaded and batches discovered covers in m_queueOfUpdates.          *)
(*                                                                         *)
(* The members of the class are the state.  Three more variables record    *)
(* what the last operation did at the interface of the class: its return   *)
(* value and the return statement it left by (last), the signals it        *)
(* emitted (emitted) and the calls it made on the two DAOs (calls).        *)
(***************************************************************************)
EXTENDS Integers, Sequences, FiniteSets, TLC

VARIABLES
    m_pCoverArtDAO,     \* TRUE when the CoverArtDAO pointer is not NULL
    m_pTrackDAO,        \* TRUE when the TrackDAO pointer is not NULL
    m_runningIds,       \* QSet<int>
    m_queueOfUpdates,   \* QHash<int, QPair<QString, QString> >
    pixmapCache,        \* QPixmapCache: key -> pixmap
    futures,            \* the QFutureWatchers whose finished() is not yet handled
    destroyed,          \* ~CoverArtCache has run
    last,               \* the last operation: name, track, return statement, value
    emitted,            \* signals emitted by the last operation, in order
    calls               \* DAO calls made by the last operation, in order

vars == <<m_pCoverArtDAO, m_pTrackDAO, m_runningIds, m_queueOfUpdates,
          pixmapCache, futures, destroyed, last, emitted, calls>>

---------------------------------------------------------------------------
(* Bounds and program constants *)

\* The batch size of updateDB: 500 in the code, scaled down.
UpdateThreshold == 2

\* The side length cover images are resized to.
kMaxCoverSize == 300

\* The tracks of the library, and the ids callers pass: 0 is an invalid id (< 1).
TrackIds == {1, 2}
InvalidIds == {0}

\* coverInfo.trackId after coverInfo = m_pCoverArtDAO->getCoverArtInfo(trackId):
\* the id of the row, or 0 (a value-initialised CoverArtInfo) when the DAO has
\* no row for the track.  The DAO is outside this file; either can come back.
CoverArtInfoIds(trackId) == {trackId, 0}

---------------------------------------------------------------------------
(* Images, sizes, hashes and cache keys *)

QSize(w, h) == [w |-> w, h |-> h]
NullSize == QSize(0, 0)
CellSize == QSize(32, 32)
CroppedSizes == {NullSize, CellSize}

\* QSize::isNull: both width and height are 0.
SizeIsNull(s) == s.w = 0 /\ s.h = 0

\* A QImage / QPixmap: its pixel content and its dimensions.
Image(c, s) == [content |-> c, size |-> s]
NullImage == Image("", NullSize)
ImageIsNull(img) == img.content = ""

\* What a decode (QImage(path), extractEmbeddedCover) can yield: nothing, or
\* a picture larger than kMaxCoverSize.
RawImage == Image("A", QSize(600, 600))
DecodedImages == {NullImage, RawImage}

Min(a, b) == IF a < b THEN a ELSE b

\* CoverArtUtils::maybeResizeImage: scale down to maxSize when larger.
maybeResizeImage(img, maxSize) ==
    IF ImageIsNull(img) \/ (img.size.w <= maxSize /\ img.size.h <= maxSize)
    THEN img
    ELSE Image(img.content, QSize(Min(img.size.w, maxSize), Min(img.size.h, maxSize)))

\* CoverArtUtils::cropImage: scale and crop to exactly the requested size.
cropImage(img, size) ==
    IF ImageIsNull(img) THEN NullImage ELSE Image(img.content, size)

\* CoverArtUtils::calculateHash: a checksum of the pixels; a null image
\* hashes to the empty string.
calculateHash(img) ==
    IF ImageIsNull(img) THEN "" ELSE "crc:" \o img.content

\* QPixmap::convertFromImage
convertFromImage(img) == img

\* QString("CoverArtCache_%1_%2x%3").arg(hash).arg(width).arg(height)
FormatCacheKey(hash, size) == <<"CoverArtCache", hash, size.w, size.h>>

\* changeCoverArt looks up and inserts under the bare hash.
HashCacheKey(hash) == <<hash>>

\* QPixmapCache::find(key, &pixmap): TRUE when the key is cached.
CacheHas(key) == key \in DOMAIN pixmapCache

\* The pixmap find() leaves in its out-parameter (untouched, so null, on a miss).
CacheFind(key) == IF CacheHas(key) THEN pixmapCache[key] ELSE NullImage

\* QPixmapCache::insert(key, pixmap); the store may refuse it (accepted = FALSE).
CacheInsert(cache, key, pixmap, accepted) ==
    IF accepted
    THEN [k \in (DOMAIN cache) \cup {key} |-> IF k = key THEN pixmap ELSE cache[k]]
    ELSE cache

---------------------------------------------------------------------------
(* m_queueOfUpdates *)

QueueHas(q, id) == id \in DOMAIN q
QueueRemove(q, id) == [k \in (DOMAIN q) \ {id} |-> q[k]]
QueueInsert(q, id, entry) ==
    [k \in (DOMAIN q) \cup {id} |-> IF k = id THEN entry ELSE q[k]]
EmptyQueue == [k \in {} |-> 0]

\* A queue entry: the QPair (coverLocation, hash).  superseded is history: the
\* pair was discovered for this track by a job dispatched before a
\* changeCoverArt for the track that has succeeded since.
Update(loc, hash, sup) == [coverLocation |-> loc, hash |-> hash, superseded |-> sup]

---------------------------------------------------------------------------
(* Observation of the last operation *)

Last(op, trackId, path, ret) == [op |-> op, trackId |-> trackId, path |-> path, ret |-> ret]
Signal(name, trackId, pixmap) == [signal |-> name, trackId |-> trackId, pixmap |-> pixmap]
pixmapFound(trackId, pixmap) == Signal("pixmapFound", trackId, pixmap)
requestRepaint == Signal("requestRepaint", 0, NullImage)
Call(fn, arg) == [fn |-> fn, arg |-> arg]

TypeOK ==
    /\ m_pCoverArtDAO \in BOOLEAN
    /\ m_pTrackDAO \in BOOLEAN
    /\ m_runningIds \subseteq TrackIds
    /\ DOMAIN m_queueOfUpdates \subseteq TrackIds \cup InvalidIds
    /\ destroyed \in BOOLEAN

\* CoverArtCache::CoverArtCache
Init ==
    /\ m_pCoverArtDAO = FALSE
    /\ m_pTrackDAO = FALSE
    /\ m_runningIds = {}
    /\ m_queueOfUpdates = EmptyQueue
    /\ pixmapCache = [k \in {} |-> NullImage]
    /\ futures = {}
    /\ destroyed = FALSE
    /\ last = Last("CoverArtCache", 0, "constructed", "void")
    /\ emitted = <<>>
    /\ calls = <<>>

---------------------------------------------------------------------------
(* The worker functions, run by QtConcurrent::run *)

CoverArtInfo(trackId, coverLocation, hash) ==
    [trackId |-> trackId, coverLocation |-> coverLocation, hash |-> hash]

FutureResult(trackId, coverLocation, hash, croppedSize, issueRepaint, img) ==
    [trackId |-> trackId, coverLocation |-> coverLocation, hash |-> hash,
     croppedSize |-> croppedSize, issueRepaint |-> issueRepaint, img |-> img]

\* decoded: what extractEmbeddedCover(trackLocation) or QImage(coverLocation)
\* yields when the worker runs.
loadImage(coverInfo, croppedSize, issueRepaint, decoded) ==
    FutureResult(coverInfo.trackId, coverInfo.coverLocation, coverInfo.hash,
                 croppedSize, issueRepaint,
                 IF SizeIsNull(croppedSize)
                 THEN maybeResizeImage(decoded, kMaxCoverSize)
                 ELSE cropImage(decoded, croppedSize))

\* embedded: extractEmbeddedCover(trackLocation); foundLocation:
\* searchInTrackDirectory(...); foundImage: QImage(foundLocation).
searchImage(coverInfo, croppedSize, issueRepaint, embedded, foundLocation, foundImage) ==
    LET loc == IF ~ImageIsNull(embedded) THEN "ID3TAG" ELSE foundLocation
        img == IF ~ImageIsNull(embedded)
               THEN maybeResizeImage(embedded, kMaxCoverSize)
               ELSE maybeResizeImage(foundImage, kMaxCoverSize)
    IN  FutureResult(coverInfo.trackId, loc, calculateHash(img),
                     croppedSize, issueRepaint,
                     IF ~SizeIsNull(croppedSize) THEN cropImage(img, croppedSize) ELSE img)

\* A dispatched job: the function QtConcurrent::run was given, with its
\* arguments.  reqId and superseded are history: the id requestPixmap put in
\* m_runningIds for it, and whether a changeCoverArt for that track has
\* succeeded since.
Future(kind, reqId, coverInfo, croppedSize, issueRepaint) ==
    [kind |-> kind, reqId |-> reqId, coverInfo |-> coverInfo,
     croppedSize |-> croppedSize, issueRepaint |-> issueRepaint,
     superseded |-> FALSE]

---------------------------------------------------------------------------
(* setCoverArtDAO, setTrackDAO *)

SetCoverArtDAO(coverdao) ==
    /\ ~destroyed
    /\ m_pCoverArtDAO' = coverdao
    /\ last' = Last("setCoverArtDAO", 0, "return", "void")
    /\ emitted' = <<>>
    /\ calls' = <<>>
    /\ UNCHANGED <<m_pTrackDAO, m_runningIds, m_queueOfUpdates, pixmapCache,
                   futures, destroyed>>

SetTrackDAO(trackdao) ==
    /\ ~destroyed
    /\ m_pTrackDAO' = trackdao
    /\ last' = Last("setTrackDAO", 0, "return", "void")
    /\ emitted' = <<>>
    /\ calls' = <<>>
    /\ UNCHANGED <<m_pCoverArtDAO, m_runningIds, m_queueOfUpdates, pixmapCache,
                   futures, destroyed>>

---------------------------------------------------------------------------
(* requestPixmap *)

\* The id test left out of the guard.
RequestRejected_AnyId(trackId) == ~m_pCoverArtDAO

\* if (info.trackId < 1 || m_pCoverArtDAO == NULL)
RequestRejected(trackId) == trackId < 1 \/ ~m_pCoverArtDAO

\* The in-flight guard left out: every request goes on to the cache.
AlreadyRunning_Unguarded(trackId) == FALSE

\* if (m_runningIds.contains(info.trackId))
AlreadyRunning(trackId) == trackId \in m_runningIds

\* The queue override left out: the caller's location and hash are used as given.
QueuedInfo_AsGiven(trackId, coverLocation, hash) ==
    CoverArtInfo(trackId, coverLocation, hash)

\* info after the m_queueOfUpdates override.
QueuedInfo(trackId, coverLocation, hash) ==
    IF QueueHas(m_queueOfUpdates, trackId)
    THEN CoverArtInfo(trackId, m_queueOfUpdates[trackId].coverLocation,
                      m_queueOfUpdates[trackId].hash)
    ELSE CoverArtInfo(trackId, coverLocation, hash)

\* The choice between searchImage and loadImage.
NeedsSearch(info, fileExists) ==
    info.hash = "" \/ (info.coverLocation # "ID3TAG" /\ ~fileExists)

\* m_runningIds.insert(info.trackId)
RunningInsert(ids, trackId) == ids \cup {trackId}

RequestPixmap(trackId, coverLocation, hash, croppedSize, onlyCached, issueRepaint) ==
    /\ ~destroyed
    /\ UNCHANGED <<m_pCoverArtDAO, m_pTrackDAO, m_queueOfUpdates, pixmapCache,
                   destroyed>>
    /\ IF RequestRejected(trackId)
       THEN /\ last' = Last("requestPixmap", trackId, "invalid", NullImage)
            /\ emitted' = <<>>
            /\ calls' = <<>>
            /\ UNCHANGED <<m_runningIds, futures>>
       ELSE IF AlreadyRunning(trackId)
       THEN /\ last' = Last("requestPixmap", trackId, "running", NullImage)
            /\ emitted' = <<>>
            /\ calls' = <<>>
            /\ UNCHANGED <<m_runningIds, futures>>
       ELSE LET info == QueuedInfo(trackId, coverLocation, hash)
                cacheKey == FormatCacheKey(info.hash, croppedSize)
            IN  IF CacheHas(cacheKey)
                THEN /\ last' = Last("requestPixmap", trackId, "hit",
                                     pixmapCache[cacheKey])
                     /\ emitted' = IF ~issueRepaint
                                   THEN <<pixmapFound(trackId, pixmapCache[cacheKey])>>
                                   ELSE <<>>
                     /\ calls' = <<>>
                     /\ UNCHANGED <<m_runningIds, futures>>
                ELSE IF onlyCached
                THEN /\ last' = Last("requestPixmap", trackId, "onlyCached", NullImage)
                     /\ emitted' = <<>>
                     /\ calls' = <<>>
                     /\ UNCHANGED <<m_runningIds, futures>>
                ELSE \E fileExists \in BOOLEAN :
                     IF NeedsSearch(info, fileExists)
                THEN /\ calls' = <<Call("CoverArtDAO::getCoverArtInfo", trackId)>>
                     /\ \E recordId \in CoverArtInfoIds(trackId) :
                          futures' = futures \cup
                            {Future("searchImage", trackId,
                                    CoverArtInfo(recordId, "", ""),
                                    croppedSize, issueRepaint)}
                     /\ m_runningIds' = RunningInsert(m_runningIds, trackId)
                     /\ last' = Last("requestPixmap", trackId, "search", NullImage)
                     /\ emitted' = <<>>
                ELSE /\ calls' = <<>>
                     /\ futures' = futures \cup
                            {Future("loadImage", trackId,
                                    CoverArtInfo(trackId, info.coverLocation, info.hash),
                                    croppedSize, issueRepaint)}
                     /\ m_runningIds' = RunningInsert(m_runningIds, trackId)
                     /\ last' = Last("requestPixmap", trackId, "load", NullImage)
                     /\ emitted' = <<>>


---------------------------------------------------------------------------
(* updateDB *)

\* The size test off by one: <= for <.
UpdateSkipped_OffByOne(queue, forceUpdate) ==
    \/ ~m_pCoverArtDAO
    \/ ~m_pTrackDAO
    \/ (~forceUpdate /\ Cardinality(DOMAIN queue) <= UpdateThreshold)

\* The DAO tests skipped when the flush is forced.
UpdateSkipped_ForceWins(queue, forceUpdate) ==
    ~forceUpdate /\ (\/ ~m_pCoverArtDAO
                     \/ ~m_pTrackDAO
                     \/ Cardinality(DOMAIN queue) < UpdateThreshold)

\* if (!m_pCoverArtDAO || !m_pTrackDAO ||
\*         (!forceUpdate && m_queueOfUpdates.size() < 500)) return;
UpdateSkipped(queue, forceUpdate) ==
    \/ ~m_pCoverArtDAO
    \/ ~m_pTrackDAO
    \/ (~forceUpdate /\ Cardinality(DOMAIN queue) < UpdateThreshold)

\* The call on the TrackDAO left out of the flush.
UpdateCalls_SaveOnly(queue, forceUpdate, covers) ==
    IF UpdateSkipped(queue, forceUpdate)
    THEN <<>>
    ELSE <<Call("CoverArtDAO::saveCoverArt(QHash)", queue)>>

\* The DAO calls updateDB makes on the queue it is given; covers is the
\* QSet<QPair<int, int> > the batched saveCoverArt returns.
UpdateCalls(queue, forceUpdate, covers) ==
    IF UpdateSkipped(queue, forceUpdate)
    THEN <<>>
    ELSE <<Call("CoverArtDAO::saveCoverArt(QHash)", queue),
           Call("TrackDAO::updateCoverArt(QSet)", covers)>>

\* The clear moved ahead of the DAO test: a forced flush empties the queue
\* even when it returns early.
UpdatedQueue_ForcedCleared(queue, forceUpdate) ==
    IF ~forceUpdate /\ UpdateSkipped(queue, forceUpdate) THEN queue ELSE EmptyQueue

\* The queue updateDB leaves: m_queueOfUpdates.clear() unless it returned early.
UpdatedQueue(queue, forceUpdate) ==
    IF UpdateSkipped(queue, forceUpdate) THEN queue ELSE EmptyQueue

\* The cover id a saveCoverArt hands back: the id of the row it wrote.
SavedId(coverLocation, hash) == <<"coverId", coverLocation, hash>>

\* What the batched saveCoverArt can return: a (trackId, coverId) pair for each
\* entry it wrote, which need not be every entry.
SavedCovers(queue) ==
    {{<<t, SavedId(queue[t].coverLocation, queue[t].hash)>> : t \in written} :
        written \in SUBSET DOMAIN queue}

\* CoverArtCache::~CoverArtCache
Destroy ==
    /\ ~destroyed
    /\ destroyed' = TRUE
    /\ \E covers \in SavedCovers(m_queueOfUpdates) :
          calls' = UpdateCalls(m_queueOfUpdates, TRUE, covers)
    /\ m_queueOfUpdates' = UpdatedQueue(m_queueOfUpdates, TRUE)
    /\ last' = Last("~CoverArtCache", 0, "return", "void")
    /\ emitted' = <<>>
    /\ UNCHANGED <<m_pCoverArtDAO, m_pTrackDAO, m_runningIds, pixmapCache, futures>>

---------------------------------------------------------------------------
(* changeCoverArt *)

\* The TrackDAO test left out of the guard.
ChangeRejected_NoTrackDAO(trackId) == trackId < 1 \/ ~m_pCoverArtDAO

\* if (trackId < 1 || m_pCoverArtDAO == NULL || m_pTrackDAO == NULL)
ChangeRejected(trackId) == trackId < 1 \/ ~m_pCoverArtDAO \/ ~m_pTrackDAO

\* m_queueOfUpdates.remove(trackId), the first statement after the guard.
ChangeQueue(queue, trackId) == QueueRemove(queue, trackId)

\* History: the jobs of the track that were dispatched before this change.
Supersede(fs, trackId) ==
    {IF f.reqId = trackId THEN [f EXCEPT !.superseded = TRUE] ELSE f : f \in fs}

\* The signals changeCoverArt emits once the pixmap is in the cache.
ChangeSignals(trackId, pixmap) == <<pixmapFound(trackId, pixmap), requestRepaint>>

ChangeCoverArt(trackId, newCoverLocation) ==
    /\ ~destroyed
    /\ UNCHANGED <<m_pCoverArtDAO, m_pTrackDAO, m_runningIds, destroyed>>
    /\ IF ChangeRejected(trackId)
       THEN /\ last' = Last("changeCoverArt", trackId, "invalid", FALSE)
            /\ emitted' = <<>>
            /\ calls' = <<>>
            /\ UNCHANGED <<m_queueOfUpdates, pixmapCache, futures>>
       ELSE /\ m_queueOfUpdates' = ChangeQueue(m_queueOfUpdates, trackId)
            /\ IF newCoverLocation = ""
               THEN /\ calls' = <<Call("TrackDAO::updateCoverArt", <<trackId, -1>>)>>
                    /\ last' = Last("changeCoverArt", trackId, "noCover", TRUE)
                    /\ emitted' = <<>>
                    /\ futures' = Supersede(futures, trackId)
                    /\ UNCHANGED pixmapCache
               ELSE \* decoded: extractEmbeddedCover(trackLocation) for "ID3TAG",
                    \* QImage(newCoverLocation) otherwise.
                    \E decoded \in DecodedImages :
                    LET located == IF newCoverLocation = "ID3TAG"
                                   THEN <<Call("TrackDAO::getTrackLocation", trackId)>>
                                   ELSE <<>>
                        img == maybeResizeImage(decoded, kMaxCoverSize)
                        hash == calculateHash(img)
                        key == HashCacheKey(hash)
                    IN  IF ImageIsNull(decoded)
                        THEN /\ calls' = located
                             /\ last' = Last("changeCoverArt", trackId, "nullImage", FALSE)
                             /\ emitted' = <<>>
                             /\ UNCHANGED <<pixmapCache, futures>>
                        ELSE /\ calls' = located \o
                                    <<Call("CoverArtDAO::saveCoverArt",
                                           <<newCoverLocation, hash>>),
                                      Call("TrackDAO::updateCoverArt",
                                           <<trackId, SavedId(newCoverLocation, hash)>>)>>
                             /\ last' = Last("changeCoverArt", trackId, "changed", TRUE)
                             /\ futures' = Supersede(futures, trackId)
                             /\ IF CacheHas(key)
                                THEN /\ emitted' = ChangeSignals(trackId, pixmapCache[key])
                                     /\ UNCHANGED pixmapCache
                                ELSE \E accepted \in BOOLEAN :
                                     /\ pixmapCache' =
                                          CacheInsert(pixmapCache, key,
                                                      convertFromImage(img), accepted)
                                     /\ emitted' =
                                          IF accepted
                                          THEN ChangeSignals(trackId, convertFromImage(img))
                                          ELSE <<>>

---------------------------------------------------------------------------
(* imageLoaded, imageFound: the slots run when a watcher's future finishes *)

\* m_runningIds.remove(res.trackId)
RunningRemove(ids, trackId) == ids \ {trackId}

\* The signal a slot emits for its result.
ResultSignal(res, pixmap) ==
    IF res.issueRepaint THEN requestRepaint ELSE pixmapFound(res.trackId, pixmap)

\* imageLoaded inserts when find() left the pixmap null and the image is not.
LoadedInserts(res, pixmap) == ImageIsNull(pixmap) /\ ~ImageIsNull(res.img)

\* imageFound inserts whenever find() left the pixmap null.
FoundInserts(res, pixmap) == ImageIsNull(pixmap)

\* The results the worker of a dispatched job can hand back.
LoadResults(f) ==
    {loadImage(f.coverInfo, f.croppedSize, f.issueRepaint, decoded) :
        decoded \in DecodedImages}

\* searchInTrackDirectory and the decode of what it returned: no file and no
\* image, or a cover file and its picture.
FoundCovers == {<<"", NullImage>>, <<"cover.jpg", RawImage>>}

SearchResults(f) ==
    {searchImage(f.coverInfo, f.croppedSize, f.issueRepaint, embedded, fc[1], fc[2]) :
        embedded \in DecodedImages, fc \in FoundCovers}

ImageLoaded(f) ==
    /\ ~destroyed
    /\ f \in futures
    /\ f.kind = "loadImage"
    /\ \E res \in LoadResults(f) :
       LET cacheKey == FormatCacheKey(res.hash, res.croppedSize)
           found == CacheFind(cacheKey)
           inserts == LoadedInserts(res, found)
           pixmap == IF inserts THEN convertFromImage(res.img) ELSE found
       IN  /\ \E accepted \in (IF inserts THEN BOOLEAN ELSE {FALSE}) :
                pixmapCache' = IF inserts
                               THEN CacheInsert(pixmapCache, cacheKey, pixmap, accepted)
                               ELSE pixmapCache
           /\ emitted' = <<ResultSignal(res, pixmap)>>
           /\ m_runningIds' = RunningRemove(m_runningIds, res.trackId)
           /\ last' = Last("imageLoaded", res.trackId, "return", "void")
    /\ futures' = futures \ {f}
    /\ calls' = <<>>
    /\ UNCHANGED <<m_pCoverArtDAO, m_pTrackDAO, m_queueOfUpdates, destroyed>>

\* if (!m_queueOfUpdates.contains(res.trackId)) { insert; updateDB(); }
FoundQueues(res) == ~QueueHas(m_queueOfUpdates, res.trackId)

ImageFound(f) ==
    /\ ~destroyed
    /\ f \in futures
    /\ f.kind = "searchImage"
    /\ \E res \in SearchResults(f) :
       LET cacheKey == FormatCacheKey(res.hash, res.croppedSize)
           found == CacheFind(cacheKey)
           inserts == FoundInserts(res, found)
           pixmap == IF inserts THEN convertFromImage(res.img) ELSE found
           queued == QueueInsert(m_queueOfUpdates, res.trackId,
                                 Update(res.coverLocation, res.hash,
                                        f.superseded /\ res.trackId = f.reqId))
       IN  /\ \E accepted \in (IF inserts THEN BOOLEAN ELSE {FALSE}) :
                pixmapCache' = IF inserts
                               THEN CacheInsert(pixmapCache, cacheKey, pixmap, accepted)
                               ELSE pixmapCache
           /\ emitted' = <<ResultSignal(res, pixmap)>>
           /\ IF FoundQueues(res)
              THEN /\ \E covers \in (IF UpdateSkipped(queued, FALSE)
                                    THEN {{}} ELSE SavedCovers(queued)) :
                          calls' = UpdateCalls(queued, FALSE, covers)
                   /\ m_queueOfUpdates' = UpdatedQueue(queued, FALSE)
              ELSE /\ calls' = <<>>
                   /\ UNCHANGED m_queueOfUpdates
           /\ m_runningIds' = RunningRemove(m_runningIds, res.trackId)
           /\ last' = Last("imageFound", res.trackId, "return", "void")
    /\ futures' = futures \ {f}
    /\ UNCHANGED <<m_pCoverArtDAO, m_pTrackDAO, destroyed>>

---------------------------------------------------------------------------
(* QPixmapCache drops an entry: it is bounded and shared with the rest of Qt *)

Evict(key) ==
    /\ ~destroyed
    /\ key \in DOMAIN pixmapCache
    /\ pixmapCache' = [k \in (DOMAIN pixmapCache) \ {key} |-> pixmapCache[k]]
    /\ last' = Last("QPixmapCache", 0, "evict", "void")
    /\ emitted' = <<>>
    /\ calls' = <<>>
    /\ UNCHANGED <<m_pCoverArtDAO, m_pTrackDAO, m_runningIds, m_queueOfUpdates,
                   futures, destroyed>>

---------------------------------------------------------------------------
(* The callers *)

\* The (coverLocation, hash) a caller holds for a track: none, an embedded
\* cover, a cover file.
CallerInfos == {<<"", "">>, <<"ID3TAG", calculateHash(RawImage)>>,
                <<"cover.jpg", calculateHash(RawImage)>>}
CoverLocations == {"", "ID3TAG", "cover.jpg"}

\* One step of the program, for callers that pass these ids, sizes and flags.
Step(ids, infos, sizes, repaints, daos) ==
    \/ \E d \in daos : SetCoverArtDAO(d)
    \/ \E d \in daos : SetTrackDAO(d)
    \/ \E t \in ids, ci \in infos, s \in sizes, oc \in BOOLEAN, ir \in repaints :
            RequestPixmap(t, ci[1], ci[2], s, oc, ir)
    \/ \E t \in ids, loc \in CoverLocations : ChangeCoverArt(t, loc)
    \/ \E f \in futures : ImageLoaded(f)
    \/ \E f \in futures : ImageFound(f)
    \/ \E k \in DOMAIN pixmapCache : Evict(k)
    \/ Destroy

\* Two tracks, asked for as the cover widget asks: at natural size, with the
\* pixmap delivered by pixmapFound; the DAOs are set once.
Next ==
    Step(TrackIds \cup InvalidIds, CallerInfos, {NullSize}, {FALSE}, {TRUE})

Spec == Init /\ [][Next]_vars

\* One track, asked for in every way: at natural size or cropped, with direct
\* delivery or a repaint; the DAOs are set and reset to NULL at any time.
NextOne ==
    Step({1} \cup InvalidIds, CallerInfos, CroppedSizes, BOOLEAN, BOOLEAN)

SpecOne == Init /\ [][NextOne]_vars

---------------------------------------------------------------------------
(* Properties *)

\* The jobs dispatched for a track whose slot has not run yet.
JobsOf(t) == {f \in futures : f.reqId = t}

\* C1: a track is in m_runningIds exactly when one job dispatched for it has
\* not had its slot applied, and no track ever has two such jobs.
C1_RunningIffOneJob ==
    \A t \in TrackIds :
        /\ Cardinality(JobsOf(t)) <= 1
        /\ (t \in m_runningIds) <=> (Cardinality(JobsOf(t)) = 1)

\* C2: a request for a track in m_runningIds returns a null pixmap, dispatches
\* nothing, emits nothing and changes neither m_runningIds, the queue nor the
\* cache; and the slot that later finishes the running job dispatches no job
\* for the dropped request: it only takes its own job away.
C2_RunningRequestDropped ==
    [][ /\ (last'.op = "requestPixmap" /\ last'.trackId \in m_runningIds)
            => /\ last'.ret = NullImage
               /\ emitted' = <<>>
               /\ calls' = <<>>
               /\ UNCHANGED <<m_runningIds, m_queueOfUpdates, pixmapCache, futures>>
        /\ (last'.op \in {"imageFound", "imageLoaded"})
            => /\ futures' \subseteq futures
               /\ Cardinality(futures') = Cardinality(futures) - 1
      ]_vars

\* C2 happens: a request was just dropped for a track whose one job is running.
C2_Witness ==
    /\ last.op = "requestPixmap"
    /\ last.path = "running"
    /\ last.trackId \in m_runningIds
    /\ Cardinality(JobsOf(last.trackId)) = 1

\* The batched saveCoverArt calls of the last operation: what a flush passed on.
FlushedBatches ==
    {calls[i].arg : i \in {j \in 1..Len(calls) :
                             calls[j].fn = "CoverArtDAO::saveCoverArt(QHash)"}}

\* C3: once changeCoverArt has succeeded for a track, no flush passes on a
\* (location, hash) that a job dispatched before it discovered for the track.
C3_OverrideSupersedesDiscovery ==
    \A batch \in FlushedBatches : \A t \in DOMAIN batch : ~batch[t].superseded

\* C4: every id a dispatch put in m_runningIds is taken out again by the slot
\* of its job, so once every dispatched job has had its slot run no id is left.
C4_AllAppliedNoneRunning ==
    (futures = {}) => (m_runningIds = {})

\* The hash requestPixmap looks up for a track: the queued one if there is one.
EffectiveHash(t, hash) ==
    IF t \in DOMAIN m_queueOfUpdates THEN m_queueOfUpdates[t].hash ELSE hash

\* C5: a request that passes the entry guards for a track not in flight, with
\* (effective hash, size) in the cache, returns the cached pixmap, dispatches
\* nothing, leaves m_runningIds and the queue alone, and emits pixmapFound for
\* the track exactly when issueRepaint is false.
C5_CacheHitServed ==
    [][ ( /\ last'.op = "requestPixmap"
          /\ last'.trackId >= 1
          /\ m_pCoverArtDAO
          /\ last'.trackId \notin m_runningIds )
        => \A ci \in CallerInfos, s \in CroppedSizes, oc \in BOOLEAN, ir \in BOOLEAN :
            LET t == last'.trackId
                key == <<"CoverArtCache", EffectiveHash(t, ci[2]), s.w, s.h>>
            IN  ( /\ key \in DOMAIN pixmapCache
                  /\ RequestPixmap(t, ci[1], ci[2], s, oc, ir) )
                => /\ last'.ret = pixmapCache[key]
                   /\ futures' = futures
                   /\ calls' = <<>>
                   /\ UNCHANGED <<m_runningIds, m_queueOfUpdates, pixmapCache>>
                   /\ ir => emitted' = <<>>
                   /\ ~ir => emitted' = <<pixmapFound(t, pixmapCache[key])>>
      ]_vars

\* C5 happens: a hit on the hash of a queued update, delivered by pixmapFound.
C5_Witness ==
    /\ last.op = "requestPixmap"
    /\ last.path = "hit"
    /\ last.trackId \in DOMAIN m_queueOfUpdates
    /\ ~ImageIsNull(last.ret)
    /\ emitted = <<pixmapFound(last.trackId, last.ret)>>

\* The members and the cache, which a rejected call must leave as they are.
members == <<m_runningIds, m_queueOfUpdates, pixmapCache, futures>>

\* C6: with a track id below 1, requestPixmap returns a null pixmap and
\* changeCoverArt returns false; neither calls a DAO, dispatches a job, touches
\* the cache, emits a signal or changes m_runningIds or the queue.
C6_InvalidIdRejected ==
    [][ (last'.op \in {"requestPixmap", "changeCoverArt"} /\ last'.trackId < 1)
          => /\ last'.op = "requestPixmap" => last'.ret = NullImage
             /\ last'.op = "changeCoverArt" => last'.ret = FALSE
             /\ calls' = <<>>
             /\ emitted' = <<>>
             /\ UNCHANGED members
      ]_vars

\* C6 happens: requestPixmap was called with id 0 while the DAO is set and a
\* job is running, and changed nothing.
C6_Witness ==
    /\ last.op = "requestPixmap"
    /\ last.trackId < 1
    /\ m_pCoverArtDAO
    /\ futures # {}

\* C7 as stated: with either DAO unset, requestPixmap returns null, dispatches
\* nothing and leaves m_runningIds alone, and changeCoverArt returns false and
\* keeps the queue; while the TrackDAO is unset no job is dispatched and no
\* queue entry is created.
C7_EitherUnsetRejectsAll ==
    [][ /\ (last'.op = "requestPixmap" /\ (~m_pCoverArtDAO \/ ~m_pTrackDAO))
            => /\ last'.ret = NullImage
               /\ futures' = futures
               /\ m_runningIds' = m_runningIds
        /\ (last'.op = "changeCoverArt" /\ (~m_pCoverArtDAO \/ ~m_pTrackDAO))
            => /\ last'.ret = FALSE
               /\ m_queueOfUpdates' = m_queueOfUpdates
        /\ ~m_pTrackDAO
            => /\ futures' \subseteq futures
               /\ DOMAIN m_queueOfUpdates' \subseteq DOMAIN m_queueOfUpdates
      ]_vars

\* C7 as the code has it: requestPixmap is rejected when the CoverArtDAO is
\* unset, changeCoverArt when either DAO is; a rejected call returns null or
\* false and changes nothing, and no job is dispatched while the CoverArtDAO is
\* unset.  With only the TrackDAO unset requestPixmap goes ahead.
C7_UnsetRejected ==
    [][ /\ (last'.op = "requestPixmap" /\ ~m_pCoverArtDAO)
            => /\ last'.ret = NullImage
               /\ calls' = <<>>
               /\ emitted' = <<>>
               /\ UNCHANGED members
        /\ (last'.op = "changeCoverArt" /\ (~m_pCoverArtDAO \/ ~m_pTrackDAO))
            => /\ last'.ret = FALSE
               /\ calls' = <<>>
               /\ emitted' = <<>>
               /\ UNCHANGED members
        /\ ~m_pCoverArtDAO => futures' \subseteq futures
      ]_vars

\* C7 happens: changeCoverArt was refused for a queued track because only the
\* TrackDAO is unset, and the queue entry is still there.
C7_Witness ==
    /\ last.op = "changeCoverArt"
    /\ last.trackId >= 1
    /\ last.ret = FALSE
    /\ m_pCoverArtDAO
    /\ ~m_pTrackDAO
    /\ last.trackId \in DOMAIN m_queueOfUpdates

\* C8: a changeCoverArt whose image decodes to null returns false, emits
\* nothing, writes nothing through the DAOs and leaves m_runningIds, the queue
\* and the cache as they were.
C8_NullDecodeChangesNothing ==
    [][ (last'.op = "changeCoverArt" /\ last'.path = "nullImage")
          => /\ last'.ret = FALSE
             /\ emitted' = <<>>
             /\ \A i \in 1..Len(calls') : calls'[i].fn = "TrackDAO::getTrackLocation"
             /\ UNCHANGED members
      ]_vars

\* C9: with both DAOs set, an imageFound that brings the queue to the
\* threshold makes one batched saveCoverArt with every entry, then one batched
\* updateCoverArt, and leaves the queue empty; one that leaves it below the
\* threshold calls no DAO; so a queue below the threshold stays below it.
C9_ThresholdFlush ==
    [][ (last'.op = "imageFound" /\ m_pCoverArtDAO /\ m_pTrackDAO)
          => LET id == last'.trackId
                 before == DOMAIN m_queueOfUpdates
                 after == before \cup {id}
             IN  /\ (id \notin before /\ Cardinality(after) = UpdateThreshold)
                      => /\ Len(calls') = 2
                         /\ calls'[1].fn = "CoverArtDAO::saveCoverArt(QHash)"
                         /\ DOMAIN calls'[1].arg = after
                         /\ \A t \in before : calls'[1].arg[t] = m_queueOfUpdates[t]
                         /\ calls'[2].fn = "TrackDAO::updateCoverArt(QSet)"
                         /\ DOMAIN m_queueOfUpdates' = {}
                 /\ Cardinality(after) < UpdateThreshold
                      => /\ calls' = <<>>
                         /\ DOMAIN m_queueOfUpdates' = after
                 /\ Cardinality(before) < UpdateThreshold
                      => Cardinality(DOMAIN m_queueOfUpdates') < UpdateThreshold
      ]_vars

\* C9 happens: an imageFound has just flushed a batch of threshold size.
C9_Witness ==
    /\ last.op = "imageFound"
    /\ Len(calls) = 2
    /\ Cardinality(DOMAIN calls[1].arg) = UpdateThreshold
    /\ DOMAIN m_queueOfUpdates = {}

\* C10: the forced updateDB of the destructor calls no DAO when the queue is
\* empty.
C10_ForcedFlushOfEmptyQueue ==
    [][ (last'.op = "~CoverArtCache" /\ DOMAIN m_queueOfUpdates = {})
          => calls' = <<>>
      ]_vars

\* C11: when the cache is destroyed with both DAOs set, the whole queue is
\* passed to the DAO in one batched saveCoverArt and the queue ends empty; and
\* in every step, an entry leaves the queue only inside such a batch or by a
\* changeCoverArt for its track.
C11_NoDiscoveryLost ==
    [][ /\ (last'.op = "~CoverArtCache" /\ m_pCoverArtDAO /\ m_pTrackDAO)
            => /\ Cardinality({i \in 1..Len(calls') :
                     calls'[i].fn = "CoverArtDAO::saveCoverArt(QHash)"}) = 1
               /\ calls'[1] = Call("CoverArtDAO::saveCoverArt(QHash)", m_queueOfUpdates)
               /\ DOMAIN m_queueOfUpdates' = {}
        /\ \A t \in DOMAIN m_queueOfUpdates :
             (t \notin DOMAIN m_queueOfUpdates' \/ m_queueOfUpdates'[t] # m_queueOfUpdates[t])
               => \/ last'.op = "changeCoverArt" /\ last'.trackId = t
                  \/ \E i \in 1..Len(calls') :
                        /\ calls'[i].fn = "CoverArtDAO::saveCoverArt(QHash)"
                        /\ t \in DOMAIN calls'[i].arg
                        /\ calls'[i].arg[t] = m_queueOfUpdates[t]
      ]_vars

\* C11 happens: the destructor has just flushed a queue that held an entry.
C11_Witness ==
    /\ last.op = "~CoverArtCache"
    /\ destroyed
    /\ Len(calls) = 2
    /\ calls[1].fn = "CoverArtDAO::saveCoverArt(QHash)"
    /\ DOMAIN calls[1].arg # {}
    /\ DOMAIN m_queueOfUpdates = {}

\* C12: an updateDB that runs while a DAO is unset, forced or not, calls no
\* DAO and removes nothing from the queue, so the queue can grow past the
\* threshold.
C12_UnsetDaoFlushIsNoOp ==
    [][ (/\ last'.op \in {"imageFound", "~CoverArtCache"}
         /\ (~m_pCoverArtDAO \/ ~m_pTrackDAO))
          => /\ calls' = <<>>
             /\ DOMAIN m_queueOfUpdates \subseteq DOMAIN m_queueOfUpdates'
             /\ \A t \in DOMAIN m_queueOfUpdates :
                    m_queueOfUpdates'[t] = m_queueOfUpdates[t]
             /\ last'.op = "~CoverArtCache" => m_queueOfUpdates' = m_queueOfUpdates
      ]_vars

\* C12 happens: the forced flush of the destructor has left a queue that is
\* past the threshold as it was, the TrackDAO being unset.
C12_Witness ==
    /\ last.op = "~CoverArtCache"
    /\ m_pCoverArtDAO
    /\ ~m_pTrackDAO
    /\ Cardinality(DOMAIN m_queueOfUpdates) > UpdateThreshold

\* C13: once a search job of a track has come back with nothing and the track
\* has left m_runningIds, a request for the track at the same size (one that
\* passes the entry guard, before the discovery is flushed) is no cache hit: it
\* dispatches a new job, unless it asked for cached pixmaps only.
C13_NoNegativeCaching ==
    [][ (/\ last'.op = "requestPixmap"
         /\ last'.trackId >= 1
         /\ m_pCoverArtDAO
         /\ last'.trackId \notin m_runningIds
         /\ last'.trackId \in DOMAIN m_queueOfUpdates
         /\ m_queueOfUpdates[last'.trackId].coverLocation = ""
         /\ m_queueOfUpdates[last'.trackId].hash = calculateHash(NullImage))
          => \/ /\ last'.path \in {"search", "load"}
                /\ futures' # futures
                /\ last'.trackId \in m_runningIds'
             \/ last'.path = "onlyCached"
      ]_vars

\* The hash changeCoverArt computed, as it passed it to saveCoverArt.
SavedHash ==
    LET i == CHOOSE j \in 1..Len(calls) : calls[j].fn = "CoverArtDAO::saveCoverArt"
    IN  calls[i].arg[2]

\* C14: after a changeCoverArt that succeeded with a cover and has the pixmap
\* in the cache, the pixmap is cached under the key requestPixmap computes for
\* the new hash at natural size, so that request is a hit.
C14_ChangedCoverUnderRequestKey ==
    (/\ last.op = "changeCoverArt"
     /\ last.path = "changed"
     /\ emitted # <<>>)
      => /\ CacheHas(FormatCacheKey(SavedHash, NullSize))
         /\ pixmapCache[FormatCacheKey(SavedHash, NullSize)] = emitted[1].pixmap

\* C15: a changeCoverArt that succeeds with a decodable cover emits one
\* pixmapFound for the track and one requestRepaint, whether or not the cache
\* took the pixmap.
C15_ChangeAlwaysNotifies ==
    (/\ last.op = "changeCoverArt"
     /\ last.path = "changed")
      => /\ Len(emitted) = 2
         /\ Cardinality({i \in 1..2 : /\ emitted[i].signal = "pixmapFound"
                                      /\ emitted[i].trackId = last.trackId}) = 1
         /\ Cardinality({i \in 1..2 : emitted[i] = requestRepaint}) = 1

\* C16: when imageFound applies the discovery of a job requested for a track
\* that already has an entry in the queue, the entry afterwards holds the hash of the later
\* discovery, the one whose pixmap the slot has just announced.
C16_LaterDiscoveryWins ==
    [][ (/\ last'.op = "imageFound"
         /\ last'.trackId \in DOMAIN m_queueOfUpdates
         /\ \E f \in futures \ futures' : f.reqId = last'.trackId
         /\ emitted'[1].signal = "pixmapFound")
          => /\ last'.trackId \in DOMAIN m_queueOfUpdates'
             /\ m_queueOfUpdates'[last'.trackId].hash = calculateHash(emitted'[1].pixmap)
      ]_vars

\* C17: the slots insert into the cache only a pixmap that is not null, so no
\* key of the cache ever holds a null pixmap.
C17_NoNullPixmapCached ==
    \A key \in DOMAIN pixmapCache : ~ImageIsNull(pixmapCache[key])

\* C18: the slot of a finished job emits exactly one signal, chosen by the
\* issueRepaint the job was dispatched with: requestRepaint alone, or a
\* pixmapFound carrying the track id of the request that dispatched the job;
\* and a requestPixmap that dispatches a job emits nothing and returns a null
\* pixmap.
C18_OneSignalPerCompletion ==
    [][ /\ (last'.op \in {"imageFound", "imageLoaded"})
            => \E f \in futures \ futures' :
                 /\ Len(emitted') = 1
                 /\ IF f.issueRepaint
                    THEN emitted'[1] = requestRepaint
                    ELSE /\ emitted'[1].signal = "pixmapFound"
                         /\ emitted'[1].trackId = f.reqId
        /\ (last'.op = "requestPixmap" /\ futures' # futures)
            => /\ emitted' = <<>>
               /\ last'.ret = NullImage
      ]_vars

\* C19: the track id the slot of a job takes out of m_runningIds (and
\* imageFound uses as the queue key and the signal's id) is the id
\* requestPixmap put into m_runningIds when it dispatched the job.
C19_RemovedIdIsInsertedId ==
    [][ (last'.op \in {"imageFound", "imageLoaded"})
          => \E f \in futures \ futures' :
               /\ last'.trackId = f.reqId
               /\ m_runningIds' = m_runningIds \ {f.reqId}
      ]_vars

\* The queue an updateDB of the step just taken was run on: the queue as it
\* was, with the entry imageFound inserted first when it inserted one.
FlushedQueue ==
    IF calls' # <<>> THEN calls'[1].arg ELSE m_queueOfUpdates

\* C20: an updateDB that does not return early makes one batched saveCoverArt
\* with the whole queue, then one batched updateCoverArt with the pairs that
\* call returned (pairs for entries of the batch, perhaps not for all), and
\* leaves the queue empty; the step has no state in between.
C20_FlushIsWholeAndOrdered ==
    [][ (/\ last'.op \in {"imageFound", "~CoverArtCache"}
         /\ calls' # <<>>)
          => /\ Len(calls') = 2
             /\ calls'[1].fn = "CoverArtDAO::saveCoverArt(QHash)"
             /\ \A t \in DOMAIN m_queueOfUpdates :
                    /\ t \in DOMAIN FlushedQueue
                    /\ FlushedQueue[t] = m_queueOfUpdates[t]
             /\ DOMAIN FlushedQueue \subseteq
                    DOMAIN m_queueOfUpdates \cup {last'.trackId}
             /\ calls'[2].fn = "TrackDAO::updateCoverArt(QSet)"
             /\ calls'[2].arg \in SavedCovers(FlushedQueue)
             /\ DOMAIN m_queueOfUpdates' = {}
      ]_vars

\* C20 happens: a flush has just passed on fewer pairs than its batch had
\* entries, and the queue is empty.
C20_Witness ==
    /\ Len(calls) = 2
    /\ calls[1].fn = "CoverArtDAO::saveCoverArt(QHash)"
    /\ calls[2].fn = "TrackDAO::updateCoverArt(QSet)"
    /\ Cardinality(calls[2].arg) < Cardinality(DOMAIN calls[1].arg)
    /\ DOMAIN m_queueOfUpdates = {}

===========================================================================
